---- MODULE Spec2Model ----
(***************************************************************************)
(* HermesClient (hermes-client.js): the SSE connection manager and its     *)
(* event listeners, as a state machine.                                    *)
(*                                                                         *)
(* One HermesClient instance.  Its fields are the variables eventSource,   *)
(* isConnected, reconnectAttempts, listeners, profileToken, userId and     *)
(* maxReconnectAttempts.  The environment is the EventSource objects the   *)
(* instance created (handles), and the setTimeout callbacks not yet run    *)
(* (timers).  Every handler is an operator from a client record to a       *)
(* client record; an action applies one handler and commits the result.    *)
(* The variables config, last, since and registry only observe: no         *)
(* handler reads them.                                                     *)
(***************************************************************************)
EXTENDS Integers, Sequences, FiniteSets, TLC

VARIABLES
    config,                \* the object passed to the constructor
    profileToken,          \* this.profileToken
    userId,                \* this.userId
    maxReconnectAttempts,  \* this.maxReconnectAttempts
    eventSource,           \* this.eventSource: NoHandle (null) or a handle
    isConnected,           \* this.isConnected
    reconnectAttempts,     \* this.reconnectAttempts
    listeners,             \* this.listeners: event name -> array of callbacks
    handles,               \* every EventSource created, in creation order
    timers,                \* pending setTimeout callbacks, in firing order
    last,                  \* observation: the operation that ran last
    since,                 \* observation: counts since the last opened callback
    registry               \* observation: the registrations made and not removed

vars == <<config, profileToken, userId, maxReconnectAttempts, eventSource,
          isConnected, reconnectAttempts, listeners, handles, timers,
          last, since, registry>>

-----------------------------------------------------------------------------
(* Bounds of the model *)

\* configured maxReconnectAttempts range over 0..MaxCfgAttempts (or absent)
MaxCfgAttempts == 2
\* EventSource objects created in one run
MaxHandles == 3
\* setTimeout callbacks pending at once
MaxTimers == 2
\* errored callbacks counted since the last opened callback
MaxErrors == 3
\* listener registrations held at once, over all events
MaxRegs == 3
MaxThrowers == 2

-----------------------------------------------------------------------------
(* JavaScript values *)

\* undefined and null, as they appear where a string is expected
Undefined == "undefined"
JsNull == "null"

\* the values `!v` is true of
Falsy(v) == v \in {Undefined, JsNull, ""}

\* o.f, undefined when o has no such property
Get(o, f) == IF f \in DOMAIN o THEN o[f] ELSE Undefined

\* this.eventSource = null
NoHandle == 0

\* config.maxReconnectAttempts || 10: the default when the option is absent
DefaultMaxReconnectAttempts == 10

Users == {"u1", "u2"}

\* the five event names the constructor creates arrays for
FixedEvents == {"notification", "connected", "disconnected", "error", "unreadCount"}

\* an event name with no array until on() creates one
CustomEvent == "custom"

\* a name this.listeners inherits from Object.prototype: this.listeners[name]
\* is a function there, truthy and no array
InheritedName == "toString"

\* the event names the application calls on, off and emit with
EventNames == {"notification", "connected", CustomEvent, InheritedName}

\* callbacks the application registers that only return
Callbacks == {"f", "g"}

-----------------------------------------------------------------------------
(* constructor *)

\* the config objects the model constructs clients from: every option may
\* be absent
Configs ==
    {<<>>, [userId |-> "u1"], [profileToken |-> "tok"],
     [profileToken |-> "tok", userId |-> "u1"],
     [appToken |-> "app"], [appToken |-> "app", userId |-> "u1"]}
    \cup {[profileToken |-> "tok", userId |-> "u1", maxReconnectAttempts |-> n] :
            n \in 0 .. MaxCfgAttempts}

\* config.x || null, for a string option
StrOrNull(c, f) == IF Falsy(Get(c, f)) THEN JsNull ELSE c[f]

\* config.maxReconnectAttempts || 10: absent and 0 are both falsy
MaxAttemptsOf(c) ==
    IF "maxReconnectAttempts" \in DOMAIN c /\ c.maxReconnectAttempts # 0
    THEN c.maxReconnectAttempts
    ELSE DefaultMaxReconnectAttempts

\* this.listeners after construction
InitialListeners == [e \in FixedEvents |-> <<>>]

-----------------------------------------------------------------------------
(* The client record handlers work on.  pub, calls and thrown are what the  *)
(* running operation did so far: the events it published, the callbacks it *)
(* invoked, and whether it ended by raising to its caller; fetch is the    *)
(* requests it handed to fetch().                                          *)

Client ==
    [appToken |-> StrOrNull(config, "appToken"),
     profileToken |-> profileToken, userId |-> userId,
     maxReconnectAttempts |-> maxReconnectAttempts,
     eventSource |-> eventSource, isConnected |-> isConnected,
     reconnectAttempts |-> reconnectAttempts, listeners |-> listeners,
     handles |-> handles, timers |-> timers,
     pub |-> <<>>, calls |-> <<>>, thrown |-> FALSE, fetch |-> <<>>]

\* the part of the client record that is program state
Core(s) ==
    [eventSource |-> s.eventSource, isConnected |-> s.isConnected,
     reconnectAttempts |-> s.reconnectAttempts, listeners |-> s.listeners,
     handles |-> s.handles, timers |-> s.timers]

-----------------------------------------------------------------------------
(* EventSource: readyState and the three signals *)

CONNECTING == "CONNECTING"
OPEN == "OPEN"
CLOSED == "CLOSED"

\* handles created and not closed
OpenHandles(hs) == {h \in DOMAIN hs : hs[h].readyState # CLOSED}

\* new EventSource(url): the url embeds userId, which the callbacks close over
NewEventSourceResetsCounter(s, uid) ==
    [s EXCEPT !.handles = Append(@, [readyState |-> CONNECTING, userId |-> uid]),
              !.eventSource = Len(s.handles) + 1,
              !.reconnectAttempts = 0]

NewEventSource(s, uid) ==
    [s EXCEPT !.handles = Append(@, [readyState |-> CONNECTING, userId |-> uid]),
              !.eventSource = Len(s.handles) + 1]

\* a closed EventSource delivers no further signal: its callbacks, and the
\* userId they close over, are unreachable
Dead == [readyState |-> CLOSED, userId |-> JsNull]

\* eventSource.close()
Close(s, h) == [s EXCEPT !.handles[h] = Dead]

-----------------------------------------------------------------------------
(* on / off / emit *)

HasArray(s, event) == event \in DOMAIN s.listeners

\* on(event, callback); this.listeners[event].push of a function throws
On(s, event, cb) ==
    IF event = InheritedName THEN [s EXCEPT !.thrown = TRUE]
    ELSE IF ~HasArray(s, event)
         THEN [s EXCEPT !.listeners = (event :> <<cb>>) @@ @]
    ELSE [s EXCEPT !.listeners[event] = Append(@, cb)]

\* the number of entries of seq that are v
Occurrences(seq, v) == Cardinality({i \in DOMAIN seq : seq[i] = v})

\* indexOf(callback): the first index holding it, 0 when there is none
IndexOf(arr, cb) ==
    IF \E i \in 1 .. Len(arr) : arr[i] = cb
    THEN CHOOSE i \in 1 .. Len(arr) : arr[i] = cb /\ \A j \in 1 .. i - 1 : arr[j] # cb
    ELSE 0

\* splice(index, 1)
Splice1(arr, i) == SubSeq(arr, 1, i - 1) \o SubSeq(arr, i + 1, Len(arr))

OffRemovesAll(s, event, cb) ==
    IF event = InheritedName THEN [s EXCEPT !.thrown = TRUE]
    ELSE IF ~HasArray(s, event) THEN s
    ELSE LET Other(c) == c # cb
         IN  [s EXCEPT !.listeners[event] = SelectSeq(@, Other)]

\* off(event, callback); indexOf of a function throws
Off(s, event, cb) ==
    IF event = InheritedName THEN [s EXCEPT !.thrown = TRUE]
    ELSE IF ~HasArray(s, event) THEN s
    ELSE LET i == IndexOf(s.listeners[event], cb)
         IN  IF i > 0 THEN [s EXCEPT !.listeners[event] = Splice1(@, i)] ELSE s

\* callbacks that do more than return: one throws, one removes itself with
\* this.off(event, itself), one calls this.connectSSE(ReconnectorUser)
Thrower == "thrower"
SelfOff == "selfOff"
Reconnector == "reconnector"
ReconnectorUser == "u2"

RECURSIVE ConnectSSE(_, _)

\* callback(data): the call, and what the callback's own code does
Call(s, cb, event, data) ==
    LET s1 == [s EXCEPT !.calls =
                   Append(@, [callback |-> cb, event |-> event, data |-> data])]
    IN  IF cb = Thrower THEN [s1 EXCEPT !.thrown = TRUE]
        ELSE IF cb = SelfOff THEN Off(s1, event, cb)
        ELSE IF cb = Reconnector THEN ConnectSSE(s1, ReconnectorUser)
        ELSE s1

InvokeNoCatch(s, cb, event, data) == Call(s, cb, event, data)

\* emit: try { callback(data) } catch (error) { this.log(...) }
Invoke(s, cb, event, data) == [Call(s, cb, event, data) EXCEPT !.thrown = FALSE]

\* Array.prototype.forEach: indices 1..len of the array as it is when each
\* index is reached; an index past its current end is skipped, and an
\* exception out of the function ends the loop
RECURSIVE ForEach(_, _, _, _, _)
ForEach(s, event, data, k, len) ==
    IF k > len \/ s.thrown THEN s
    ELSE IF k > Len(s.listeners[event]) THEN ForEach(s, event, data, k + 1, len)
    ELSE ForEach(Invoke(s, s.listeners[event][k], event, data), event, data, k + 1, len)

\* emit(event, data)
Emit(s, event, data) ==
    LET s1 == [s EXCEPT !.pub = Append(@, [event |-> event, data |-> data])]
    IN  IF event = InheritedName THEN [s1 EXCEPT !.thrown = TRUE]
        ELSE IF ~HasArray(s1, event) THEN s1
        ELSE ForEach(s1, event, data, 1, Len(s1.listeners[event]))

-----------------------------------------------------------------------------
(* disconnectSSE / connectSSE and the transport callbacks *)

DisconnectWithoutClose(s) ==
    IF s.eventSource # NoHandle
    THEN Emit([s EXCEPT !.eventSource = NoHandle, !.isConnected = FALSE],
              "disconnected", [reason |-> "manual"])
    ELSE s

DisconnectKeepsHandle(s) ==
    IF s.eventSource # NoHandle
    THEN Emit([Close(s, s.eventSource) EXCEPT !.isConnected = FALSE],
              "disconnected", [reason |-> "manual"])
    ELSE s

DisconnectResetsCounter(s) ==
    IF s.eventSource # NoHandle
    THEN Emit([Close(s, s.eventSource) EXCEPT !.eventSource = NoHandle,
                                              !.isConnected = FALSE,
                                              !.reconnectAttempts = 0],
              "disconnected", [reason |-> "manual"])
    ELSE s

\* disconnectSSE()
DisconnectSSE(s) ==
    IF s.eventSource # NoHandle
    THEN Emit([Close(s, s.eventSource) EXCEPT !.eventSource = NoHandle,
                                              !.isConnected = FALSE],
              "disconnected", [reason |-> "manual"])
    ELSE s

\* connectSSE(userId = this.userId): the default parameter
ResolveUserId(s, arg) == IF arg = Undefined THEN s.userId ELSE arg

\* connectSSE: the two checks that throw before anything else happens
ConnectThrows(s, uid) == Falsy(uid) \/ Falsy(s.profileToken)

TearDownNothing(s) == s

\* connectSSE: if (this.eventSource) this.disconnectSSE()
TearDownFirst(s) == IF s.eventSource # NoHandle THEN DisconnectSSE(s) ELSE s

ConnectSSEChecksLate(s, arg) ==
    LET uid == ResolveUserId(s, arg)
        s1 == TearDownFirst(s)
    IN  IF s1.thrown THEN s1
        ELSE IF ConnectThrows(s1, uid) THEN [s1 EXCEPT !.thrown = TRUE]
        ELSE NewEventSource(s1, uid)

\* connectSSE(arg)
ConnectSSE(s, arg) ==
    LET uid == ResolveUserId(s, arg)
        s1 == TearDownFirst(s)
    IN  IF ConnectThrows(s, uid) THEN [s EXCEPT !.thrown = TRUE]
        ELSE IF s1.thrown THEN s1
        ELSE NewEventSource(s1, uid)

OnOpenKeepsCounter(s, h) ==
    Emit([s EXCEPT !.isConnected = TRUE],
         "connected", [userId |-> s.handles[h].userId])

\* eventSource.onopen of handle h; userId is the one connectSSE resolved
OnOpen(s, h) ==
    Emit([s EXCEPT !.isConnected = TRUE, !.reconnectAttempts = 0],
         "connected", [userId |-> s.handles[h].userId])

\* event.data of the message events the server pushes
RawMessages ==
    {"garbage", "null", "notification", "unread_count_5", "unread_count_0",
     "unread_count_missing", "connected", "ping", "untyped"}

\* JSON.parse(event.data): ok is FALSE when it throws
JSONParse(raw) ==
    CASE raw = "garbage" -> [ok |-> FALSE]
      [] raw = "null" -> [ok |-> TRUE, isNull |-> TRUE]
      [] raw = "notification" ->
            [ok |-> TRUE, isNull |-> FALSE,
             data |-> [type |-> "notification", id |-> "n1", title |-> "t"]]
      [] raw = "unread_count_5" ->
            [ok |-> TRUE, isNull |-> FALSE,
             data |-> [type |-> "unread_count", count |-> [number |-> 5]]]
      [] raw = "unread_count_0" ->
            [ok |-> TRUE, isNull |-> FALSE,
             data |-> [type |-> "unread_count", count |-> [number |-> 0]]]
      [] raw = "unread_count_missing" ->
            [ok |-> TRUE, isNull |-> FALSE, data |-> [type |-> "unread_count"]]
      [] raw = "connected" ->
            [ok |-> TRUE, isNull |-> FALSE,
             data |-> [type |-> "connected", session |-> "s1"]]
      [] raw = "ping" ->
            [ok |-> TRUE, isNull |-> FALSE, data |-> [type |-> "ping"]]
      [] OTHER -> [ok |-> TRUE, isNull |-> FALSE, data |-> [title |-> "t"]]

CountOrWhole(data) ==
    IF "count" \in DOMAIN data /\ data.count.number # 0 THEN data.count ELSE data

\* data.count as emit passes it on: a number, or undefined
CountOf(data) ==
    IF "count" \in DOMAIN data THEN data.count ELSE [undefined |-> TRUE]

DispatchDropsOnUnknown(s, raw) ==
    LET p == JSONParse(raw)
    IN  IF ~p.ok \/ p.isNull THEN [s EXCEPT !.thrown = TRUE]
        ELSE IF Get(p.data, "type") = "notification"
             THEN Emit(s, "notification", p.data)
        ELSE IF Get(p.data, "type") = "unread_count"
             THEN Emit(s, "unreadCount", CountOf(p.data))
        ELSE IF Get(p.data, "type") = "connected"
             THEN Emit(s, "connected", p.data)
        ELSE [s EXCEPT !.isConnected = FALSE]

DispatchFallsThrough(s, raw) ==
    LET p == JSONParse(raw)
    IN  IF ~p.ok \/ p.isNull THEN [s EXCEPT !.thrown = TRUE]
        ELSE IF Get(p.data, "type") = "notification"
             THEN Emit(Emit(s, "notification", p.data), "connected", p.data)
        ELSE IF Get(p.data, "type") = "unread_count"
             THEN Emit(s, "unreadCount", CountOf(p.data))
        ELSE IF Get(p.data, "type") = "connected"
             THEN Emit(s, "connected", p.data)
        ELSE s

\* onmessage, the body of its try block
Dispatch(s, raw) ==
    LET p == JSONParse(raw)
    IN  IF ~p.ok \/ p.isNull THEN [s EXCEPT !.thrown = TRUE]
        ELSE IF Get(p.data, "type") = "notification"
             THEN Emit(s, "notification", p.data)
        ELSE IF Get(p.data, "type") = "unread_count"
             THEN Emit(s, "unreadCount", CountOf(p.data))
        ELSE IF Get(p.data, "type") = "connected"
             THEN Emit(s, "connected", p.data)
        ELSE s

OnMessageNoCatch(s, raw) == Dispatch(s, raw)

\* eventSource.onmessage: a JSON.parse that throws, or a property read of
\* null, lands in the catch, which only logs
OnMessage(s, raw) == [Dispatch(s, raw) EXCEPT !.thrown = FALSE]

\* onerror, the auto-reconnect part: setTimeout(() => this.connectSSE(userId))
\* (after is an observation: the application call made since, none so far)
ScheduleReconnectAlways(s, h) ==
    [s EXCEPT !.reconnectAttempts = @ + 1,
              !.timers = Append(@, [userId |-> s.handles[h].userId, after |-> "none"])]

ScheduleReconnectForDefault(s, h) ==
    IF s.reconnectAttempts < s.maxReconnectAttempts
    THEN [s EXCEPT !.reconnectAttempts = @ + 1,
                   !.timers = Append(@, [userId |-> s.userId, after |-> "none"])]
    ELSE s

ScheduleReconnect(s, h) ==
    IF s.reconnectAttempts < s.maxReconnectAttempts
    THEN [s EXCEPT !.reconnectAttempts = @ + 1,
                   !.timers = Append(@, [userId |-> s.handles[h].userId,
                                         after |-> "none"])]
    ELSE s

\* onerror, the first part: the flag and the two events
AnnounceError(s) ==
    LET s1 == Emit([s EXCEPT !.isConnected = FALSE], "error", [error |-> "transport"])
    IN  IF s1.thrown THEN s1
        ELSE Emit(s1, "disconnected", [reason |-> "error"])

OnErrorQuietWhenExhausted(s, h) ==
    IF s.reconnectAttempts < s.maxReconnectAttempts
    THEN ScheduleReconnect(AnnounceError(s), h)
    ELSE [s EXCEPT !.isConnected = FALSE]

\* eventSource.onerror of handle h
OnError(s, h) ==
    LET s1 == AnnounceError(s)
    IN  IF s1.thrown THEN s1 ELSE ScheduleReconnect(s1, h)

\* the setTimeout callback: () => this.connectSSE(userId)
OnTimer(s, t) == ConnectSSE(s, t.userId)

-----------------------------------------------------------------------------
(* The request/response operations, up to their call of fetch() *)

\* the arguments the application calls connectSSE with
ConnectArgs == Users \cup {Undefined}

\* throw new Error(...): the async function's promise is rejected
Reject(s) == [s EXCEPT !.thrown = TRUE]

\* await fetch(url, {headers: {Authorization: `Bearer ${token}`}, ...})
Fetch(s, path, subject, token) ==
    [s EXCEPT !.fetch = Append(@, [path |-> path, subject |-> subject, token |-> token])]

\* this.profileToken || this.appToken
EitherToken(s) == IF Falsy(s.profileToken) THEN s.appToken ELSE s.profileToken

SendNotificationWithEitherToken(s, options) ==
    IF Falsy(Get(options, "userId")) THEN Reject(s)
    ELSE IF Falsy(Get(options, "title")) \/ Falsy(Get(options, "body")) THEN Reject(s)
    ELSE IF Falsy(EitherToken(s)) THEN Reject(s)
    ELSE Fetch(s, "send", options.userId, EitherToken(s))

\* sendNotification(options)
SendNotification(s, options) ==
    IF Falsy(Get(options, "userId")) THEN Reject(s)
    ELSE IF Falsy(Get(options, "title")) \/ Falsy(Get(options, "body")) THEN Reject(s)
    ELSE IF Falsy(s.appToken) THEN Reject(s)
    ELSE Fetch(s, "send", options.userId, s.appToken)

\* the three operations that take a user id defaulting to this.userId:
\* getNotifications({userId}), getUnreadCount(userId), markAllAsRead(userId)
ForUser(s, path, arg) ==
    LET uid == ResolveUserId(s, arg)
    IN  IF Falsy(uid) THEN Reject(s)
        ELSE IF Falsy(EitherToken(s)) THEN Reject(s)
        ELSE Fetch(s, path, uid, EitherToken(s))

\* getNotifications(options): const { userId = this.userId } = options
GetNotifications(s, options) == ForUser(s, "user", Get(options, "userId"))

\* getUnreadCount(userId = this.userId)
GetUnreadCount(s, arg) == ForUser(s, "unread-count", arg)

\* markAllAsRead(userId = this.userId)
MarkAllAsRead(s, arg) == ForUser(s, "read-all", arg)

\* markAsRead(notificationId)
MarkAsRead(s, id) ==
    IF Falsy(id) THEN Reject(s)
    ELSE IF Falsy(EitherToken(s)) THEN Reject(s)
    ELSE Fetch(s, "read", id, EitherToken(s))

\* the options objects sendNotification and getNotifications are called with
SendOptions ==
    {<<>>, [userId |-> "u1"], [title |-> "t", body |-> "b"],
     [userId |-> "u1", title |-> "t"], [userId |-> "u1", body |-> "b"],
     [userId |-> "u1", title |-> "", body |-> "b"],
     [userId |-> "u1", title |-> "t", body |-> "b"]}
QueryOptions == {<<>>, [userId |-> "u2"]}
NotificationIds == {Undefined, "n1"}

\* the operation a call names, applied to its input
ApiOperation(s, method, input) ==
    CASE method = "sendNotification" -> SendNotification(s, input)
      [] method = "getNotifications" -> GetNotifications(s, input)
      [] method = "getUnreadCount" -> GetUnreadCount(s, input)
      [] method = "markAsRead" -> MarkAsRead(s, input)
      [] method = "markAllAsRead" -> MarkAllAsRead(s, input)

\* the inputs a method is called with
ApiInputs(method) ==
    CASE method = "sendNotification" -> SendOptions
      [] method = "getNotifications" -> QueryOptions
      [] method = "markAsRead" -> NotificationIds
      [] OTHER -> ConnectArgs

ApiMethods ==
    {"sendNotification", "getNotifications", "getUnreadCount", "markAsRead",
     "markAllAsRead"}

-----------------------------------------------------------------------------
(* Observations *)

IsEvent(e, event) == e.event = event
IsDisconnected(e, reason) == e.event = "disconnected" /\ e.data = [reason |-> reason]

\* how many of the events in pub are such events
CountEvents(pub, event) ==
    Cardinality({i \in DOMAIN pub : IsEvent(pub[i], event)})
CountDisconnected(pub, reason) ==
    Cardinality({i \in DOMAIN pub : IsDisconnected(pub[i], reason)})

\* pending timers, marked with the application call just made
Marked(ts, call) == [i \in DOMAIN ts |-> [ts[i] EXCEPT !.after = call]]

\* how many connectSSE calls of the application, each returning normally,
\* ran one right after the other up to now: 0, 1, or 2 for two and more
RunBefore ==
    IF last.op = "connect" /\ ~last.thrown
    THEN (IF last.run = 0 THEN 1 ELSE 2)
    ELSE 0

NoCounts == [errors |-> 0, scheduled |-> 0, errorEvents |-> 0, disconnectedEvents |-> 0]

\* counts since the last opened callback (or construction)
SinceAfter(op, s1) ==
    IF op = "open" THEN NoCounts
    ELSE IF op = "error"
         THEN [errors |-> since.errors + 1,
               scheduled |-> since.scheduled + (Len(s1.timers) - Len(timers)),
               errorEvents |-> since.errorEvents + CountEvents(s1.pub, "error"),
               disconnectedEvents |->
                   since.disconnectedEvents + CountDisconnected(s1.pub, "error")]
    ELSE since

\* the step every action ends with: s1 becomes the client's state, and the
\* operation is recorded with the state it started from
Record(op, arg, h, after, s1) ==
    /\ eventSource' = s1.eventSource
    /\ isConnected' = s1.isConnected
    /\ reconnectAttempts' = s1.reconnectAttempts
    /\ listeners' = s1.listeners
    /\ handles' = s1.handles
    /\ timers' = s1.timers
    /\ last' = [op |-> op, arg |-> arg, h |-> h, after |-> after,
                thrown |-> s1.thrown, pub |-> s1.pub, calls |-> s1.calls,
                fetch |-> s1.fetch,
                pre |-> Core(Client), run |-> RunBefore]
    /\ since' = SinceAfter(op, s1)
    /\ UNCHANGED <<config, profileToken, userId, maxReconnectAttempts>>

\* the registrations of the registry without the oldest one of cb for event
RegistryWithout(reg, event, cb) ==
    LET hits == {i \in DOMAIN reg : reg[i] = [event |-> event, callback |-> cb]}
    IN  IF hits = {} THEN reg
        ELSE LET i == CHOOSE j \in hits : \A k \in hits : j <= k
             IN  SubSeq(reg, 1, i - 1) \o SubSeq(reg, i + 1, Len(reg))

\* the registry once the callbacks called have run: each call of SelfOff
\* removed its registration
RECURSIVE RegistryAfter(_, _)
RegistryAfter(reg, calls) ==
    IF calls = <<>> THEN reg
    ELSE RegistryAfter(IF Head(calls).callback = SelfOff
                       THEN RegistryWithout(reg, Head(calls).event, SelfOff)
                       ELSE reg,
                       Tail(calls))

\* a step of the connection: no registration is made, and none removed but
\* by the callbacks called
Commit(op, arg, h, after, s1) ==
    /\ Record(op, arg, h, after, s1)
    /\ registry' = RegistryAfter(registry, s1.calls)

-----------------------------------------------------------------------------
(* Actions *)

\* the state `new HermesClient(c)` leaves, for every config of the model
Init ==
    /\ config \in Configs
    /\ profileToken = StrOrNull(config, "profileToken")
    /\ userId = StrOrNull(config, "userId")
    /\ maxReconnectAttempts = MaxAttemptsOf(config)
    /\ eventSource = NoHandle
    /\ isConnected = FALSE
    /\ reconnectAttempts = 0
    /\ listeners = InitialListeners
    /\ handles = <<>>
    /\ timers = <<>>
    /\ last = [op |-> "new", arg |-> "", h |-> NoHandle, after |-> "none",
               thrown |-> FALSE, pub |-> <<>>, calls |-> <<>>, fetch |-> <<>>,
               run |-> 0,
               pre |-> [eventSource |-> NoHandle, isConnected |-> FALSE,
                        reconnectAttempts |-> 0, listeners |-> InitialListeners,
                        handles |-> <<>>, timers |-> <<>>]]
    /\ since = NoCounts
    /\ registry = <<>>


\* the application calls connectSSE(arg)
Connect(arg) ==
    LET s1 == ConnectSSE(Client, arg)
    IN  /\ s1.thrown \/ Len(handles) < MaxHandles
        /\ Commit("connect", arg, s1.eventSource, "none",
                  IF s1.thrown THEN s1
                  ELSE [s1 EXCEPT !.timers = Marked(@, "connect")])

\* the application calls disconnectSSE()
Disconnect ==
    LET s1 == DisconnectSSE(Client)
    IN  Commit("disconnect", "", eventSource, "none",
               [s1 EXCEPT !.timers = Marked(@, "disconnect")])

\* the transport announces the connection of handle h: open
TransportOpen(h) ==
    /\ handles[h].readyState = CONNECTING
    /\ Commit("open", "", h, "none",
              OnOpen([Client EXCEPT !.handles[h].readyState = OPEN], h))

\* the transport delivers a message on handle h: message
TransportMessage(h, raw) ==
    /\ handles[h].readyState = OPEN
    /\ Commit("message", raw, h, "none", OnMessage(Client, raw))

\* the transport loses the connection of handle h and retries (CONNECTING) or
\* gives up (CLOSED): error
TransportError(h, fate) ==
    /\ handles[h].readyState # CLOSED
    /\ since.errors < MaxErrors
    /\ reconnectAttempts < maxReconnectAttempts => Len(timers) < MaxTimers
    /\ Commit("error", fate, h, "none",
              LET s1 == OnError([Client EXCEPT !.handles[h].readyState = fate], h)
              IN  IF s1.handles[h].readyState = CLOSED THEN Close(s1, h) ELSE s1)

\* the reconnect delay of the oldest pending timer elapses
TimerFires ==
    /\ timers # <<>>
    /\ Len(handles) < MaxHandles
    /\ LET t == Head(timers)
           s1 == OnTimer([Client EXCEPT !.timers = Tail(@)], t)
       IN  Commit("timer", t.userId, s1.eventSource, t.after, s1)

\* the payloads the application calls emit with
Payloads == {[text |-> "p1"], [text |-> "p2"]}

\* the application calls on(event, cb)
AppOn(event, cb) ==
    LET s1 == On(Client, event, cb)
    IN  /\ Len(registry) < MaxRegs
        /\ Record("on", [event |-> event, callback |-> cb], NoHandle, "none", s1)
        /\ registry' = IF s1.thrown THEN registry
                       ELSE Append(registry, [event |-> event, callback |-> cb])

\* the application calls off(event, cb)
AppOff(event, cb) ==
    LET s1 == Off(Client, event, cb)
    IN  /\ Record("off", [event |-> event, callback |-> cb], NoHandle, "none", s1)
        /\ registry' = IF s1.thrown THEN registry
                       ELSE RegistryWithout(registry, event, cb)

\* the application calls emit(event, data)
AppEmit(event, data) ==
    /\ Record("emit", [event |-> event, data |-> data], NoHandle, "none",
              Emit(Client, event, data))
    /\ registry' = RegistryAfter(registry, Emit(Client, event, data).calls)

Next ==
    \/ \E arg \in ConnectArgs : Connect(arg)
    \/ Disconnect
    \/ \E h \in DOMAIN handles : TransportOpen(h)
    \/ \E h \in DOMAIN handles, raw \in RawMessages : TransportMessage(h, raw)
    \/ \E h \in DOMAIN handles, fate \in {CONNECTING, CLOSED} : TransportError(h, fate)
    \/ TimerFires

Spec == Init /\ [][Next]_vars

GetStatusByHandle(s) ==
    [isConnected |-> s.eventSource # NoHandle,
     reconnectAttempts |-> s.reconnectAttempts,
     hasEventSource |-> s.eventSource # NoHandle]

\* getStatus()
GetStatus(s) ==
    [isConnected |-> s.isConnected,
     reconnectAttempts |-> s.reconnectAttempts,
     hasEventSource |-> s.eventSource # NoHandle]

\* the application calls getStatus(); what it returns is kept as the argument
AppGetStatus == Commit("status", GetStatus(Client), NoHandle, "none", Client)

\* The connection with an application that also reads the status.
NextStatus == Next \/ AppGetStatus

SpecStatus == Init /\ [][NextStatus]_vars

\* the application calls one of the request/response operations
ApiCall(method, input) ==
    Commit("api", [method |-> method, input |-> input], NoHandle, "none",
           ApiOperation(Client, method, input))

\* The connection of a client whose application also calls the
\* request/response operations, for every combination of credentials.
InitApi == Init /\ "maxReconnectAttempts" \notin DOMAIN config

NextApi ==
    \/ \E method \in ApiMethods : \E input \in ApiInputs(method) : ApiCall(method, input)
    \/ \E arg \in {"u1", Undefined} : Connect(arg)
    \/ Disconnect
    \/ \E h \in DOMAIN handles : TransportOpen(h)
    \/ \E h \in DOMAIN handles : TransportMessage(h, "notification")
    \/ \E h \in DOMAIN handles, fate \in {CONNECTING, CLOSED} : TransportError(h, fate)
    \/ TimerFires

SpecApi == InitApi /\ [][NextApi]_vars

\* the application calls disconnectSSE() twice in succession
DisconnectTwice ==
    LET s1 == DisconnectSSE(DisconnectSSE(Client))
    IN  Commit("disconnect twice", "", eventSource, "none",
               [s1 EXCEPT !.timers = Marked(@, "disconnect")])

\* The connection with an application that also disconnects twice in a row.
NextTwice == Next \/ DisconnectTwice

SpecTwice == Init /\ [][NextTwice]_vars

\* A client that reconnects at most twice. setTimeout: the event loop runs the
\* callback of a pending timer once its delay has elapsed.
InitFair ==
    Init /\ config = [profileToken |-> "tok", userId |-> "u1", maxReconnectAttempts |-> 2]

SpecFair == InitFair /\ [][Next]_vars /\ WF_vars(TimerFires)

\* A client whose application subscribes, calls connectSSE once and nothing
\* after, and whose connections never open: every handle ends in error, and
\* the event loop runs the timers.
InitDoomed ==
    /\ Init
    /\ "maxReconnectAttempts" \in DOMAIN config
    /\ config.maxReconnectAttempts >= 1

\* the application subscribes to what a failing connection publishes
SubscribeFirst(event) ==
    /\ handles = <<>>
    /\ Len(registry) < MaxRegs
    /\ Record("subscribe", event, NoHandle, "none", On(Client, event, "f"))
    /\ registry' = Append(registry, [event |-> event, callback |-> "f"])

\* the application's one call
ConnectOnce(arg) == handles = <<>> /\ Connect(arg)

\* the transport reports an error on some handle
SomeTransportError ==
    \E h \in DOMAIN handles, fate \in {CONNECTING, CLOSED} : TransportError(h, fate)

NextDoomed ==
    \/ \E event \in {"error", "disconnected"} : SubscribeFirst(event)
    \/ \E arg \in ConnectArgs : ConnectOnce(arg)
    \/ SomeTransportError
    \/ TimerFires

SpecDoomed ==
    InitDoomed /\ [][NextDoomed]_vars /\ WF_vars(TimerFires)

\* The listeners alone: a constructed client whose application registers,
\* removes and publishes.
InitBus == Init /\ config = [profileToken |-> "tok", userId |-> "u1"]

NextBus ==
    \/ \E event \in EventNames, cb \in Callbacks : AppOn(event, cb)
    \/ \E event \in EventNames, cb \in Callbacks : AppOff(event, cb)
    \/ \E event \in EventNames, data \in Payloads : AppEmit(event, data)

SpecBus == InitBus /\ [][NextBus]_vars

\* The connection of a client whose application answers `disconnected` by
\* connecting again from inside the callback.
AppOnReconnector ==
    /\ Occurrences(listeners["disconnected"], Reconnector) = 0
    /\ AppOn("disconnected", Reconnector)

\* the application removes that callback again
AppOffReconnector == AppOff("disconnected", Reconnector)

\* every step may create handles here, so each stays within the bound
NextReentrant ==
    /\ \/ AppOnReconnector
       \/ AppOffReconnector
       \/ \E arg \in ConnectArgs : Connect(arg)
       \/ Disconnect
       \/ \E h \in DOMAIN handles : TransportOpen(h)
       \/ \E h \in DOMAIN handles, fate \in {CONNECTING, CLOSED} : TransportError(h, fate)
       \/ TimerFires
    /\ Len(handles') <= MaxHandles

SpecReentrant == InitBus /\ [][NextReentrant]_vars

\* The listeners with callbacks that throw or remove themselves when called.
WildCallbacks == {"f", Thrower, SelfOff}
WildEvents == {"notification", CustomEvent}
WildPayload == [text |-> "p1"]

NextBusWild ==
    \/ \E event \in WildEvents, cb \in WildCallbacks : AppOn(event, cb)
    \/ \E event \in WildEvents, cb \in WildCallbacks : AppOff(event, cb)
    \/ \E event \in WildEvents : AppEmit(event, WildPayload)

SpecBusWild == InitBus /\ [][NextBusWild]_vars

\* The connection of a client whose application registers callbacks that
\* throw for the events the connection publishes.
ThrowEvents == {"error", "disconnected", "connected", "notification"}
ThrowMessages == {"notification", "garbage"}

InitThrow ==
    Init /\ config = [profileToken |-> "tok", userId |-> "u1", maxReconnectAttempts |-> 1]

\* the application calls on(event, thrower)
AppOnThrower(event) == Len(registry) < MaxThrowers /\ AppOn(event, Thrower)

NextThrow ==
    \/ \E event \in ThrowEvents : AppOnThrower(event)
    \/ Connect(Undefined)
    \/ Disconnect
    \/ \E h \in DOMAIN handles : TransportOpen(h)
    \/ \E h \in DOMAIN handles, raw \in ThrowMessages : TransportMessage(h, raw)
    \/ \E h \in DOMAIN handles, fate \in {CONNECTING, CLOSED} : TransportError(h, fate)
    \/ TimerFires

SpecThrow == InitThrow /\ [][NextThrow]_vars

-----------------------------------------------------------------------------
(* Properties of the connection (Spec) *)

\* the option the client was constructed with, when it was given
Configured(option) == option \in DOMAIN config

\* C1: in every reachable state at most one EventSource the client created
\* is open (created and not closed).
C1_AtMostOneOpenHandle == Cardinality(OpenHandles(handles)) <= 1

\* a reconnect timer fired while a handle was open, and replaced it
C1_Witness ==
    /\ last.op = "timer"
    /\ OpenHandles(last.pre.handles) # {}
    /\ Cardinality(OpenHandles(handles)) = 1

\* C2: when a reconnect scheduled by a transport error fires after the
\* application called disconnectSSE, no EventSource is opened: the client
\* still holds no handle and is not connected.
C2_DisconnectCancelsReconnect ==
    (last.op = "timer" /\ last.after = "disconnect")
        => /\ eventSource = NoHandle
           /\ handles = last.pre.handles
           /\ ~isConnected

\* C3: when a reconnect scheduled by a transport error fires after a newer
\* connectSSE call of the application, it closes no handle and opens none:
\* the client holds the handle of the newer call, for the newer user id.
C3_ConnectInvalidatesReconnect ==
    (last.op = "timer" /\ last.after = "connect")
        => /\ eventSource = last.pre.eventSource
           /\ handles = last.pre.handles

\* C4: connectSSE called twice in succession leaves exactly one open
\* EventSource, the second, the first being closed; and the opened callback
\* that then fires is the second handle's and publishes exactly one
\* `connected` event.
C4_ConnectTwice ==
    /\ (last.op = "connect" /\ ~last.thrown /\ last.run >= 1)
            => /\ OpenHandles(handles) = {eventSource}
               /\ eventSource = Len(handles)
               /\ last.pre.eventSource = Len(handles) - 1
               /\ handles[last.pre.eventSource].readyState = CLOSED
    /\ (last.op = "open" /\ last.run = 2)
            => /\ last.h = eventSource
               /\ last.h = Len(handles)
               /\ CountEvents(last.pub, "connected") = 1

\* two connectSSE calls in succession, then the opened callback
C4_Witness == last.op = "open" /\ last.run = 2 /\ isConnected

\* C5: with maxReconnectAttempts = N configured, N transport errors since
\* the last opened callback leave reconnectAttempts = N with N reconnects
\* scheduled, and an error after them schedules none and leaves the client
\* disconnected.
C5_AttemptsExhausted ==
    Configured("maxReconnectAttempts") =>
        /\ since.errors >= config.maxReconnectAttempts
                => /\ reconnectAttempts = config.maxReconnectAttempts
                   /\ since.scheduled = config.maxReconnectAttempts
        /\ (last.op = "error" /\ since.errors > config.maxReconnectAttempts)
                => /\ Len(timers) = Len(last.pre.timers)
                   /\ ~isConnected

\* C5, for the N the constructor keeps (this.maxReconnectAttempts, never 0)
AttemptsExhaustedAsKept ==
    /\ since.errors >= maxReconnectAttempts
            => /\ reconnectAttempts = maxReconnectAttempts
               /\ since.scheduled = maxReconnectAttempts
    /\ (last.op = "error" /\ since.errors > maxReconnectAttempts)
            => /\ Len(timers) = Len(last.pre.timers)
               /\ ~isConnected

\* C6: every errored callback leaves the client disconnected and publishes
\* one `error` event and then one `disconnected` event with reason `error`,
\* whether or not it schedules a reconnect; k errors publish k of each.
C6_ErrorPublishes ==
    /\ last.op = "error"
            => /\ ~isConnected
               /\ last.pub = <<[event |-> "error", data |-> [error |-> "transport"]],
                               [event |-> "disconnected", data |-> [reason |-> "error"]]>>
    /\ since.errorEvents = since.errors
    /\ since.disconnectedEvents = since.errors

\* maxReconnectAttempts = 2 and three errors in a row: two reconnects
\* scheduled, three events of each kind
C6_Witness ==
    /\ Configured("maxReconnectAttempts") /\ config.maxReconnectAttempts = 2
    /\ last.op = "error"
    /\ since.errors = 3 /\ since.scheduled = 2
    /\ since.errorEvents = 3 /\ since.disconnectedEvents = 3

\* C7: the opened callback leaves the client connected with the reconnect
\* counter at 0, whatever it was, and publishes exactly one `connected`
\* event, with the user id of the connectSSE call that made the handle.
C7_OpenResets ==
    last.op = "open"
        => /\ isConnected
           /\ reconnectAttempts = 0
           /\ last.pub = <<[event |-> "connected",
                            data |-> [userId |-> last.pre.handles[last.h].userId]]>>

\* the opened callback fired with the counter above 0
C7_Witness == last.op = "open" /\ last.pre.reconnectAttempts > 0 /\ isConnected

\* C8: a client constructed with maxReconnectAttempts = 0 never schedules a
\* reconnect and keeps its reconnect counter at 0.
C8_ZeroDisablesReconnect ==
    (Configured("maxReconnectAttempts") /\ config.maxReconnectAttempts = 0)
        => /\ timers = <<>>
           /\ since.scheduled = 0
           /\ reconnectAttempts = 0

\* C9: connectSSE with no user id (no argument and none configured) or with
\* no profileToken raises, opens no EventSource, publishes nothing and
\* leaves the handle, the connection flag and the counter as they were.
C9_ConnectFailsClean ==
    (/\ last.op = "connect"
     /\ \/ last.arg = Undefined /\ ~Configured("userId")
        \/ ~Configured("profileToken"))
        => /\ last.thrown
           /\ last.pub = <<>>
           /\ Core(Client) = last.pre

\* connectSSE raised while a connection was open
C9_Witness ==
    /\ last.op = "connect" /\ last.thrown
    /\ eventSource # NoHandle /\ isConnected
    /\ handles[eventSource].readyState = OPEN

-----------------------------------------------------------------------------
(* Properties of the listeners (SpecBus) *)

\* the calls emit(event, data) owes: one per registration for event that
\* was made and not removed, in the order the registrations were made
OwedCalls(event, data) ==
    LET ForEvent(r) == r.event = event
        regs == SelectSeq(registry, ForEvent)
    IN  [i \in DOMAIN regs |->
            [callback |-> regs[i].callback, event |-> event, data |-> data]]

\* C10: emit(event, payload) invokes the callbacks registered for event, once
\* per registration, in registration order, with the payload, and no other.
C10_EmitInvokesRegistered ==
    last.op = "emit" => last.calls = OwedCalls(last.arg.event, last.arg.data)

\* emit invoked one callback twice while another event had a registration
C10_Witness ==
    /\ last.op = "emit"
    /\ Len(last.calls) = 2
    /\ last.calls[1].callback = last.calls[2].callback
    /\ Len(registry) = 3

\* the callbacks event had when the last operation began
ListBefore(event) ==
    IF HasArray(last.pre, event) THEN last.pre.listeners[event] ELSE <<>>

\* one call per entry of list, in its order
CallsOf(list, event, data) ==
    [i \in DOMAIN list |-> [callback |-> list[i], event |-> event, data |-> data]]

\* C11: a callback that throws during emit does not stop the callbacks after
\* it from being invoked, and emit itself does not throw.
C11_ThrowerIsContained ==
    (last.op = "emit" /\ Occurrences(ListBefore(last.arg.event), SelfOff) = 0)
        => /\ ~last.thrown
           /\ last.calls = CallsOf(ListBefore(last.arg.event),
                                   last.arg.event, last.arg.data)

\* emit called a thrower and then the callback registered after it
C11_Witness ==
    /\ last.op = "emit"
    /\ ~last.thrown
    /\ Len(last.calls) = 2
    /\ last.calls[1].callback = Thrower
    /\ last.calls[2].callback = "f"

\* C12: every callback registered when emit began and not removed during it
\* is invoked exactly once, whatever off or on the callbacks call meanwhile.
C12_EmitSurvivesOff ==
    last.op = "emit" =>
        \A cb \in WildCallbacks \ {SelfOff} :
            Occurrences([i \in DOMAIN last.calls |-> last.calls[i].callback], cb)
                = Occurrences(ListBefore(last.arg.event), cb)

\* list without its first entry that is cb; list itself when it has none
WithoutFirst(list, cb) ==
    IF Occurrences(list, cb) = 0 THEN list
    ELSE LET i == CHOOSE j \in DOMAIN list :
                      list[j] = cb /\ \A k \in 1 .. j - 1 : list[k] # cb
         IN  [k \in 1 .. Len(list) - 1 |-> IF k < i THEN list[k] ELSE list[k + 1]]

\* what the last operation, an off, had to leave: the first occurrence of the
\* callback gone from the event's list, every other list as it was, the event
\* names as they were
OffEffect ==
    /\ DOMAIN listeners = DOMAIN last.pre.listeners
    /\ \A e \in DOMAIN listeners :
           listeners[e] = IF e = last.arg.event
                          THEN WithoutFirst(last.pre.listeners[e], last.arg.callback)
                          ELSE last.pre.listeners[e]

\* C13: off removes exactly the first occurrence of the callback from the
\* event's list and keeps the rest in order; with an unknown event name or a
\* callback that is not registered it changes nothing and raises no error;
\* the lists of other events are never changed.
C13_OffRemovesFirst ==
    last.op = "off" => ~last.thrown /\ OffEffect

\* the same for every event name that Object.prototype does not define
OffRemovesFirstOfOwnNames ==
    (last.op = "off" /\ last.arg.event # InheritedName) => ~last.thrown /\ OffEffect

\* off took the first of two registrations of one callback
OffTookFirstOfTwo ==
    /\ last.op = "off"
    /\ Occurrences(ListBefore(last.arg.event), last.arg.callback) = 2
    /\ Len(ListBefore(last.arg.event)) = 3
    /\ ListBefore(last.arg.event)[1] # last.arg.callback

\* the one event a manual disconnect publishes
ManualDisconnected == [event |-> "disconnected", data |-> [reason |-> "manual"]]

\* C14: disconnectSSE called while the client holds a transport handle closes
\* that handle, clears it, leaves isConnected false, publishes exactly one
\* disconnected event with reason manual and leaves reconnectAttempts as it
\* was.
C14_DisconnectClosesHandle ==
    (last.op = "disconnect" /\ last.pre.eventSource # NoHandle)
        => /\ handles[last.pre.eventSource].readyState = CLOSED
           /\ eventSource = NoHandle
           /\ ~isConnected
           /\ last.pub = <<ManualDisconnected>>
           /\ reconnectAttempts = last.pre.reconnectAttempts
           /\ ~last.thrown

\* disconnectSSE was called on a connected client
C14_Witness ==
    /\ last.op = "disconnect"
    /\ last.pre.eventSource # NoHandle
    /\ last.pre.isConnected
    /\ last.pre.handles[last.pre.eventSource].readyState = OPEN

\* the last operation published nothing and left the client as it was
LeftAlone ==
    /\ last.pub = <<>>
    /\ ~last.thrown
    /\ eventSource = last.pre.eventSource
    /\ isConnected = last.pre.isConnected
    /\ reconnectAttempts = last.pre.reconnectAttempts
    /\ listeners = last.pre.listeners
    /\ handles = last.pre.handles
    /\ Len(timers) = Len(last.pre.timers)

\* the client was disconnected by a transport error that ended its handle
\* when the last operation began
EndedByError ==
    /\ last.pre.eventSource # NoHandle
    /\ ~last.pre.isConnected
    /\ last.pre.handles[last.pre.eventSource].readyState = CLOSED

\* C15: disconnectSSE on a client that is already disconnected, whether it
\* never connected, was disconnected by the application or was disconnected
\* by a transport error, publishes nothing and changes no state.
C15_DisconnectIsNoOp ==
    (last.op = "disconnect" /\ (last.pre.eventSource = NoHandle \/ EndedByError))
        => LeftAlone

\* the same for a client that holds no handle
DisconnectIsNoOpWithoutHandle ==
    (last.op = "disconnect" /\ last.pre.eventSource = NoHandle) => LeftAlone

\* disconnectSSE was called after a disconnectSSE had cleared a handle
DisconnectedTwice ==
    last.op = "disconnect" /\ last.pre.eventSource = NoHandle /\ Len(handles) > 0

\* what JSON.parse made of the message the last operation delivered
Parsed == JSONParse(last.arg)

\* C16: a message of type unread_count with count c publishes exactly one
\* unreadCount event whose payload is c, and no notification or connected
\* event.
C16_UnreadCountPublishesCount ==
    (/\ last.op = "message"
     /\ Parsed.ok /\ ~Parsed.isNull
     /\ Get(Parsed.data, "type") = "unread_count"
     /\ "count" \in DOMAIN Parsed.data)
        => last.pub = <<[event |-> "unreadCount", data |-> Parsed.data.count]>>

\* an unread_count message with count 0 arrived on a connected client
C16_Witness ==
    /\ last.op = "message"
    /\ last.arg = "unread_count_0"
    /\ last.pre.isConnected
    /\ last.h = eventSource

\* C17: a message that JSON.parse rejects publishes no event, leaves the
\* connection state, the handle and the reconnect counter as they were, and
\* nothing is thrown out of the message callback.
C17_UnparseableIsDiscarded ==
    (last.op = "message" /\ ~Parsed.ok) => LeftAlone

\* a message that is not JSON arrived on a connected client
C17_Witness ==
    /\ last.op = "message"
    /\ last.arg = "garbage"
    /\ isConnected
    /\ last.h = eventSource

\* C18: a parsed message publishes at most one event: type notification one
\* notification event with the whole payload, type connected one connected
\* event with the payload, any other type but unread_count, or none, no
\* event.
C18_OneEventByType ==
    (last.op = "message" /\ Parsed.ok) =>
        /\ Len(last.pub) <= 1
        /\ ~Parsed.isNull =>
              LET type == Get(Parsed.data, "type")
              IN  /\ type = "notification" =>
                        last.pub = <<[event |-> "notification", data |-> Parsed.data]>>
                  /\ type = "connected" =>
                        last.pub = <<[event |-> "connected", data |-> Parsed.data]>>
                  /\ type \notin {"notification", "connected", "unread_count"} =>
                        last.pub = <<>>

\* a notification message was published with its payload
C18_Witness ==
    /\ last.op = "message"
    /\ last.arg = "notification"
    /\ Len(last.pub) = 1
    /\ last.pub[1].data.id = "n1"

\* the client as it was when the last operation began
PreClient ==
    [Client EXCEPT !.eventSource = last.pre.eventSource,
                   !.isConnected = last.pre.isConnected,
                   !.reconnectAttempts = last.pre.reconnectAttempts,
                   !.listeners = last.pre.listeners,
                   !.handles = last.pre.handles,
                   !.timers = last.pre.timers]

\* s with a callback that returns in the place of every callback that throws
Tamed(s) ==
    [s EXCEPT !.listeners =
        [e \in DOMAIN @ |->
            [i \in DOMAIN @[e] |-> IF @[e][i] = Thrower THEN "f" ELSE @[e][i]]]]

\* the transport callback or the disconnectSSE that the last operation was
Handled(s) ==
    CASE last.op = "open" -> OnOpen([s EXCEPT !.handles[last.h].readyState = OPEN], last.h)
      [] last.op = "message" -> OnMessage(s, last.arg)
      [] last.op = "error" ->
            OnError([s EXCEPT !.handles[last.h].readyState = last.arg], last.h)
      [] last.op = "disconnect" -> DisconnectSSE(s)
      [] OTHER -> s

\* the outcome of an operation: connection state, handle, the handles' states,
\* reconnect counter and the reconnects scheduled
Outcome(s) ==
    [eventSource |-> s.eventSource,
     isConnected |-> s.isConnected,
     reconnectAttempts |-> s.reconnectAttempts,
     readyStates |-> [h \in DOMAIN s.handles |-> s.handles[h].readyState],
     scheduled |-> [i \in DOMAIN s.timers |-> s.timers[i].userId]]

\* the last operation called a callback that threw
ThrowerWasCalled == \E i \in DOMAIN last.calls : last.calls[i].callback = Thrower

\* C19: a callback that throws while handling an event published by a
\* transport callback or by disconnectSSE leaves the outcome of the operation
\* (connection state, handle, reconnect counter, reconnects scheduled, events
\* published) as it is when the callback returns normally.
C19_ThrowerKeepsOutcome ==
    (last.op \in {"open", "message", "error", "disconnect"} /\ ThrowerWasCalled)
        => /\ ~last.thrown
           /\ Outcome(Client) = Outcome(Handled(Tamed(PreClient)))
           /\ last.pub = Handled(Tamed(PreClient)).pub

\* a transport error whose error listener threw still published disconnected
\* and scheduled the reconnect
C19_Witness ==
    /\ last.op = "error"
    /\ last.calls # <<>>
    /\ last.calls[1] = [callback |-> Thrower, event |-> "error",
                        data |-> [error |-> "transport"]]
    /\ Len(last.pub) = 2
    /\ Len(timers) = Len(last.pre.timers) + 1

\* a reconnect for user id u is pending, and the application has called
\* neither connectSSE nor disconnectSSE since it was scheduled
Pending(u) == \E i \in DOMAIN timers : timers[i] = [userId |-> u, after |-> "none"]

\* the application has called connectSSE or disconnectSSE while a reconnect
\* was pending
Intervened == \E i \in DOMAIN timers : timers[i].after # "none"

\* the timer's connectSSE(u) has just opened a new handle for u
Reopened(u) ==
    /\ last.op = "timer" /\ last.arg = u /\ ~last.thrown
    /\ eventSource = Len(handles)
    /\ Len(handles) = Len(last.pre.handles) + 1
    /\ handles[eventSource] = [readyState |-> CONNECTING, userId |-> u]

\* a transport error below the maximum adds 1 to the counter and schedules a
\* reconnect with the user id of the handle that failed; a reconnect that
\* fires with no application call since opens a new handle for its user id
ErrorSchedulesReconnect ==
    /\ (last.op = "error" /\ last.pre.reconnectAttempts < maxReconnectAttempts)
            => /\ reconnectAttempts = last.pre.reconnectAttempts + 1
               /\ timers = Append(last.pre.timers,
                                  [userId |-> last.pre.handles[last.h].userId,
                                   after |-> "none"])
    /\ (last.op = "timer" /\ last.after = "none")
            => /\ last.arg = Head(last.pre.timers).userId
               /\ Reopened(last.arg)

\* C20: a transport error with reconnectAttempts below maxReconnectAttempts
\* adds exactly 1 to the counter, and unless the application calls connectSSE
\* or disconnectSSE meanwhile, connectSSE is eventually called again by the
\* timer with the user id of the failed connection and opens a new handle
\* for it (as long as the model's handle bound leaves room for one).
C20_ErrorLeadsToReconnect ==
    /\ []ErrorSchedulesReconnect
    /\ \A u \in Users :
           Pending(u) ~> (Reopened(u) \/ Intervened \/ Len(handles) = MaxHandles)

\* a connection for u2, not the configured user, failed and the timer opened
\* a new handle for u2
C20_Witness ==
    /\ last.op = "timer" /\ last.after = "none"
    /\ last.arg = "u2" /\ userId = "u1"
    /\ Reopened("u2")
    /\ reconnectAttempts >= 1

\* C21: when no connection ever opens and the application calls nothing
\* after its connectSSE, the client eventually has no pending reconnect timer
\* and is disconnected from then on.
C21_ReconnectionTerminates == <>[](timers = <<>> /\ ~isConnected)

\* the attempts are used up: the handle the last timer opened failed too, and
\* no timer is pending
C21_Witness ==
    /\ last.op = "error"
    /\ last.pre.reconnectAttempts = maxReconnectAttempts
    /\ Len(handles) = maxReconnectAttempts + 1
    /\ last.h = Len(handles)
    /\ timers = <<>>
    /\ ~isConnected

\* C22: getStatus returns the current isConnected, the current
\* reconnectAttempts and whether the client holds a transport handle, and it
\* changes no state, publishes no event and schedules nothing.
C22_GetStatusIsPureRead ==
    last.op = "status"
        => /\ last.arg = [isConnected |-> isConnected,
                          reconnectAttempts |-> reconnectAttempts,
                          hasEventSource |-> eventSource # NoHandle]
           /\ LeftAlone
           /\ timers = last.pre.timers

\* getStatus on a client that a transport error disconnected, with its handle
\* still held and one reconnect counted
C22_Witness ==
    /\ last.op = "status"
    /\ last.arg.hasEventSource
    /\ ~last.arg.isConnected
    /\ last.arg.reconnectAttempts = 1
    /\ timers # <<>>

\* the input of the last operation, a request/response call, lacks what the
\* method requires: a parameter, or the credential
MissingInput ==
    LET method == last.arg.method
        input == last.arg.input
        noApp == "appToken" \notin DOMAIN config
        noProfile == "profileToken" \notin DOMAIN config
        noDefaultUser == "userId" \notin DOMAIN config
        Absent(o, f) == f \notin DOMAIN o \/ o[f] = ""
    IN  CASE method = "sendNotification" ->
                \/ Absent(input, "userId") \/ Absent(input, "title")
                \/ Absent(input, "body") \/ noApp
          [] method = "getNotifications" ->
                \/ ("userId" \notin DOMAIN input /\ noDefaultUser)
                \/ (noApp /\ noProfile)
          [] method = "markAsRead" -> input = Undefined \/ (noApp /\ noProfile)
          [] OTHER -> (input = Undefined /\ noDefaultUser) \/ (noApp /\ noProfile)

\* the last operation published nothing and left the connection as it was
StreamKept ==
    /\ last.pub = <<>> /\ last.calls = <<>>
    /\ eventSource = last.pre.eventSource
    /\ isConnected = last.pre.isConnected
    /\ reconnectAttempts = last.pre.reconnectAttempts
    /\ listeners = last.pre.listeners
    /\ handles = last.pre.handles
    /\ timers = last.pre.timers

\* C23: each of the five request/response operations fails before it calls
\* fetch when a required parameter or the credential is missing (appToken for
\* sendNotification, both tokens for the other four), and none of them
\* changes the connection or publishes an event.
C23_ApiFailsBeforeFetch ==
    last.op = "api"
        => /\ MissingInput => (last.thrown /\ last.fetch = <<>>)
           /\ StreamKept

\* with complete input the operation reaches fetch, once
ApiReachesFetch ==
    (last.op = "api" /\ ~MissingInput) => (~last.thrown /\ Len(last.fetch) = 1)

\* sendNotification with complete options failed for the missing appToken on
\* a connected client
C23_Witness ==
    /\ last.op = "api"
    /\ last.arg.method = "sendNotification"
    /\ last.arg.input = [userId |-> "u1", title |-> "t", body |-> "b"]
    /\ last.thrown
    /\ isConnected

\* C24: when a subscriber of disconnected calls connectSSE from inside its
\* callback while connectSSE tears the previous handle down, exactly one
\* handle is open after the outer connectSSE returns, the one the client
\* refers to.
C24_ReentrantConnectLeaksNothing ==
    (last.op = "connect" /\ ~last.thrown) => OpenHandles(handles) = {eventSource}

\* C25: in every reachable state a client that reports isConnected holds a
\* transport handle.
C25_ConnectedHasHandle == isConnected => eventSource # NoHandle

\* C26: in every reachable state 0 <= reconnectAttempts <=
\* maxReconnectAttempts, and no more than maxReconnectAttempts reconnects have
\* been scheduled since the last opened callback (or since construction),
\* also when one handle reports several errors.
C26_AttemptsWithinMaximum ==
    /\ 0 <= reconnectAttempts
    /\ reconnectAttempts <= maxReconnectAttempts
    /\ since.scheduled <= maxReconnectAttempts

\* one handle reported three errors with a maximum of 2: two reconnects
\* scheduled, the counter at 2
C26_Witness ==
    /\ last.op = "error"
    /\ maxReconnectAttempts = 2
    /\ Len(handles) = 1
    /\ since.errors = 3
    /\ since.scheduled = 2
    /\ reconnectAttempts = 2

\* C27: every reconnect a timer drives first tears the errored handle down
\* through disconnectSSE, so it publishes exactly one disconnected event with
\* reason manual, which no application call caused, before it opens the new
\* handle.
C27_ReconnectPublishesManual ==
    last.op = "timer"
        => /\ last.pub = <<ManualDisconnected>>
           /\ last.pre.eventSource # NoHandle
           /\ handles[last.pre.eventSource].readyState = CLOSED
           /\ eventSource = Len(handles)

\* the same for a timer that finds a handle held; and a timer finds none only
\* after the application called disconnectSSE
ReconnectTearsDownHeldHandle ==
    /\ (last.op = "timer" /\ last.pre.eventSource # NoHandle)
            => /\ last.pub = <<ManualDisconnected>>
               /\ handles[last.pre.eventSource].readyState = CLOSED
               /\ eventSource = Len(handles)
    /\ (last.op = "timer" /\ last.pre.eventSource = NoHandle)
            => /\ last.after = "disconnect"
               /\ last.pub = <<>>

\* a timer with no application call since its error tore the errored handle
\* down
ReconnectToreDown ==
    /\ last.op = "timer" /\ last.after = "none"
    /\ last.pub = <<ManualDisconnected>>

\* C28: a connectSSE or disconnectSSE the application calls leaves
\* reconnectAttempts as it was; so once the attempts are exhausted, an error of
\* a handle the application's connectSSE made schedules no reconnect.
C28_AppCallsKeepCounter ==
    /\ last.op \in {"connect", "disconnect"}
            => reconnectAttempts = last.pre.reconnectAttempts
    /\ (last.op = "error" /\ last.pre.reconnectAttempts = maxReconnectAttempts)
            => /\ timers = last.pre.timers
               /\ reconnectAttempts = maxReconnectAttempts

\* with the attempts exhausted the application called connectSSE, and the
\* handle it made failed before opening: nothing is pending
C28_Witness ==
    /\ last.op = "error"
    /\ last.run >= 1
    /\ last.h = eventSource
    /\ last.pre.reconnectAttempts = maxReconnectAttempts
    /\ ~isConnected
    /\ timers = <<>>

\* the last operation, two disconnectSSE calls, left what one call leaves
TwiceAsOnce ==
    /\ Outcome(Client) = Outcome(DisconnectSSE(PreClient))
    /\ listeners = last.pre.listeners
    /\ ~last.thrown

\* C29 as stated: two consecutive disconnectSSE calls leave the state one
\* call leaves and publish exactly one disconnected event with reason manual
\* in total.
C29_TwoDisconnectsPublishOne ==
    last.op = "disconnect twice"
        => TwiceAsOnce /\ last.pub = <<ManualDisconnected>>

\* C29 amended: two consecutive disconnectSSE calls leave the state one call
\* leaves and publish in total what one call publishes: one disconnected
\* event with reason manual when the client held a handle at the first call,
\* none when it held none.
C29_TwoDisconnectsAsOne ==
    last.op = "disconnect twice"
        => /\ TwiceAsOnce
           /\ last.pub = DisconnectSSE(PreClient).pub
           /\ last.pub = IF last.pre.eventSource # NoHandle
                         THEN <<ManualDisconnected>>
                         ELSE <<>>

\* disconnectSSE was called twice on a connected client
C29_Witness ==
    /\ last.op = "disconnect twice"
    /\ last.pre.isConnected
    /\ last.pre.eventSource # NoHandle
    /\ Len(last.pub) = 1

\* C30: the message callback, whatever the payload, leaves the connection
\* state, the transport handle, the reconnect counter and the pending
\* reconnect timers as they were (no callback here calls connectSSE or
\* disconnectSSE).
C30_MessageKeepsConnection ==
    last.op = "message"
        => /\ isConnected = last.pre.isConnected
           /\ eventSource = last.pre.eventSource
           /\ handles = last.pre.handles
           /\ reconnectAttempts = last.pre.reconnectAttempts
           /\ timers = last.pre.timers

\* a message of a type the client does not know arrived while a reconnect
\* was pending
C30_Witness ==
    /\ last.op = "message"
    /\ last.arg = "ping"
    /\ isConnected
    /\ timers # <<>>

====
